---------------------------- MODULE Spec2Model ----------------------------
(* Model of src/script.js: the Kitchen Ingredient Recipe Finder page.      *)
(* One action per event handler / promise continuation of the script.      *)
(* Strings that the script splits and trims are sequences of tokens        *)
(* (words, "," and " "), probabilities are integer percents.               *)
EXTENDS Integers, Sequences, FiniteSets, TLC

VARIABLES
  model,          \* script.js:14   "undefined" | "loaded"
  loadPending,    \* the promise of mobilenet.load() is still pending
  files,          \* imageUpload.files[0], NoFile when the list is empty
  readers,        \* files whose FileReader.readAsDataURL is in flight
  previewSrc,     \* previewImage.src
  disabled,       \* analyzeBtn.disabled
  textContent,    \* analyzeBtn.textContent
  alertMsg,       \* the notice the latest step showed with alert(), "" if none
  ingredientList, \* children of #ingredient-list, in document order
  recipes,        \* children of #recipes, in document order
  passes,         \* analysis passes between the click and their last statement
  fetches,        \* fetchRecipes calls suspended in fetch()/response.json()
  gen,            \* number of accepted analyze clicks (names the passes)
  settled,        \* history: the fetchRecipes calls that have returned since
                  \* the recipe container was last cleared
  predictions,    \* the predictions of the last label resolution, script.js:93
  recognised,     \* the Set built by the last label resolution, in insertion order
  resolved        \* the label resolution of `predictions` has run

vars == <<model, loadPending, files, readers, previewSrc, disabled, textContent,
          alertMsg, ingredientList, recipes, passes, fetches, gen, settled,
          predictions, recognised, resolved>>

uiVars == <<model, loadPending, files, readers, previewSrc, disabled, textContent,
            alertMsg, ingredientList, recipes, passes, fetches, gen, settled>>

-----------------------------------------------------------------------------
(* Bounds *)

MaxAnalyses == 2     \* accepted analyze clicks in one behaviour
MaxPreds == 3        \* length of a prediction sequence given to the resolver
MaxMeals == 6        \* records in one meals list of the recipe service

-----------------------------------------------------------------------------
(* Values *)

Undefined == "undefined"
NoFile == "<no file>"
NoSrc == ""
Files == {"a.png", "b.png"}

Range(s) == {s[i] : i \in 1..Len(s)}
Min(a, b) == IF a < b THEN a ELSE b

LoadingLabel == "Loading model..."
IdleLabel == "Analyze Ingredients"
BusyLabel == "Analyzing..."
NoModelNotice == "Model not loaded yet, please wait."
NoFileNotice == "Please upload an image first."
Placeholder == "No recognizable ingredients found."

-----------------------------------------------------------------------------
(* The ingredient vocabulary, script.js:18-48 *)

ingredientMap ==
  (<<"banana">> :> "banana") @@
  (<<"Granny", " ", "Smith">> :> "apple") @@
  (<<"strawberry">> :> "strawberry") @@
  (<<"orange">> :> "orange") @@
  (<<"lemon">> :> "lemon") @@
  (<<"pineapple">> :> "pineapple") @@
  (<<"cucumber">> :> "cucumber") @@
  (<<"carrot">> :> "carrot") @@
  (<<"broccoli">> :> "broccoli") @@
  (<<"cauliflower">> :> "cauliflower") @@
  (<<"bell", " ", "pepper">> :> "pepper") @@
  (<<"chili", " ", "pepper">> :> "pepper") @@
  (<<"jalapeno">> :> "pepper") @@
  (<<"potato">> :> "potato") @@
  (<<"cabbage">> :> "cabbage") @@
  (<<"lettuce">> :> "lettuce") @@
  (<<"mushroom">> :> "mushroom") @@
  (<<"garlic">> :> "garlic") @@
  (<<"ginger">> :> "ginger") @@
  (<<"onion">> :> "onion") @@
  (<<"egg">> :> "egg") @@
  (<<"bagel">> :> "bread") @@
  (<<"pretzel">> :> "bread") @@
  (<<"dough">> :> "bread") @@
  (<<"pizza">> :> "pizza") @@
  (<<"bacon">> :> "bacon") @@
  (<<"hotdog">> :> "hot dog") @@
  (<<"hamburger">> :> "beef") @@
  (<<"cheeseburger">> :> "beef")

\* The canonical names: the values of the table.
Vocabulary == {ingredientMap[k] : k \in DOMAIN ingredientMap}

\* ingredientMap is an object literal, so it inherits the properties of
\* Object.prototype: a property read with one of these names finds a function
\* (or, for __proto__, the prototype object), which is truthy.
ObjectPrototype ==
  (<<"constructor">> :> "function Object() { [native code] }") @@
  (<<"toString">> :> "function toString() { [native code] }") @@
  (<<"valueOf">> :> "function valueOf() { [native code] }") @@
  (<<"hasOwnProperty">> :> "function hasOwnProperty() { [native code] }") @@
  (<<"__proto__">> :> "[object Object]")

\* ingredientMap[trimmed]: own property first, then the prototype chain.
GetOwn(key) ==
  IF key \in DOMAIN ingredientMap THEN ingredientMap[key] ELSE Undefined

GetInherited(key) ==
  IF key \in DOMAIN ObjectPrototype THEN ObjectPrototype[key] ELSE Undefined

Get(key) ==
  IF key \in DOMAIN ingredientMap THEN GetOwn(key) ELSE GetInherited(key)

\* Truthiness of a value read from the table (no value in it is "" or 0).
Truthy(v) == v # Undefined

-----------------------------------------------------------------------------
(* Label resolution, script.js:95-106 *)

Threshold == 20   \* 0.20, in percent

\* name.split(','): the parts between the commas; always at least one part.
RECURSIVE split(_)
split(s) ==
  IF \A i \in 1..Len(s) : s[i] # ","
  THEN <<s>>
  ELSE LET i == CHOOSE k \in 1..Len(s) :
                  s[k] = "," /\ \A j \in 1..(k - 1) : s[j] # ","
       IN <<SubSeq(s, 1, i - 1)>> \o split(SubSeq(s, i + 1, Len(s)))

\* part.trim(): the part without its leading and trailing white space.
RECURSIVE trim(_)
trim(s) ==
  IF s # <<>> /\ Head(s) = " " THEN trim(Tail(s))
  ELSE IF s # <<>> /\ s[Len(s)] = " " THEN trim(SubSeq(s, 1, Len(s) - 1))
  ELSE s

SetAdd_noDedup(set, v) == Append(set, v)

\* Set.prototype.add on a Set kept in insertion order.
SetAdd(set, v) == IF v \in Range(set) THEN set ELSE Append(set, v)

AboveThreshold_atLeast(probability) == probability >= Threshold

\* pred.probability > 0.20
AboveThreshold(probability) == probability > Threshold

\* the body of the for loop over the parts, script.js:100-105
RECURSIVE ResolveParts(_, _, _)
ResolveParts(parts, probability, set) ==
  IF parts = <<>> THEN set
  ELSE LET trimmed == trim(Head(parts))
           next == IF Truthy(Get(trimmed)) /\ AboveThreshold(probability)
                   THEN SetAdd(set, Get(trimmed))
                   ELSE set
       IN ResolveParts(Tail(parts), probability, next)

\* predictions.forEach(pred => ...), script.js:96-106
RECURSIVE ResolvePreds(_, _)
ResolvePreds(preds, set) ==
  IF preds = <<>> THEN set
  ELSE ResolvePreds(Tail(preds),
         ResolveParts(split(Head(preds).className), Head(preds).probability, set))

NewSet_carried == recognised

\* const recognised = new Set(), script.js:95: a fresh, empty Set in every run
\* of the onload handler.
NewSet == <<>>

\* const recognised = new Set(); predictions.forEach(...)
Resolve(preds) == ResolvePreds(preds, NewSet)

-----------------------------------------------------------------------------
(* Predictions the classifier may return *)

Pred(name, p) == [className |-> name, probability |-> p]

BagelLabel == <<"bagel", ",", " ", "roll", ",", " ", "bun">>
TabbyLabel == <<"tabby", ",", " ", "tabby", " ", "cat">>

PredictionPool ==
  { Pred(<<"banana">>, 90),
    Pred(<<"Granny", " ", "Smith">>, 50),
    Pred(<<"lemon">>, 10),
    Pred(<<"lemon">>, 20),
    Pred(<<"lemon">>, 21),
    Pred(BagelLabel, 50),
    Pred(<<"lemon", ",", "banana", " ", ",", " ", "egg">>, 20),
    Pred(<<"bell", " ", "pepper">>, 50),
    Pred(<<"jalapeno">>, 30),
    Pred(TabbyLabel, 90),
    Pred(<<"constructor">>, 90),
    Pred(<<>>, 90) }

SeqsUpTo(S, n) == UNION {[1..k -> S] : k \in 0..n}

PredictionSeqs == SeqsUpTo(PredictionPool, MaxPreds)

\* What model.classify(img) resolves to in a pass of the page.
ClassifierOutputs ==
  { <<>>,
    <<Pred(<<"lemon">>, 10), Pred(TabbyLabel, 90)>>,
    <<Pred(<<"banana">>, 90)>>,
    <<Pred(<<"bell", " ", "pepper">>, 50), Pred(<<"jalapeno">>, 30),
      Pred(<<"banana">>, 90)>> }


-----------------------------------------------------------------------------
(* The recipe service, as fetchRecipes sees it *)

MaxCards == 3   \* data.meals.slice(0, 3)

\* A record of the meals list: "rec" has strMeal, strMealThumb and idMeal,
\* "null" is a null entry (reading a field of it throws a TypeError).
RecordKinds == {"rec", "null"}

\* The lists the service may send: at most one null entry, anywhere.
MealLists ==
  {l \in SeqsUpTo(RecordKinds, MaxMeals) :
     Cardinality({i \in 1..Len(l) : l[i] = "null"}) <= 1}

\* The ways one request can end. transport: fetch() rejects; ok: response.ok;
\* body: "unparseable" (response.json() rejects), "null" (the JSON value null),
\* "nomeals" ({"meals": null}), "notalist" (meals is a string or an object
\* without a slice/forEach pair), "list" (meals is the array `meals`).
FetchOutcomes ==
  {[transport |-> FALSE, ok |-> FALSE, body |-> "unparseable", meals |-> <<>>]}
  \cup {[transport |-> TRUE, ok |-> FALSE, body |-> "unparseable", meals |-> <<>>]}
  \cup {[transport |-> TRUE, ok |-> TRUE, body |-> b, meals |-> <<>>] :
          b \in {"unparseable", "null", "nomeals", "notalist"}}
  \cup {[transport |-> TRUE, ok |-> TRUE, body |-> "list", meals |-> l] :
          l \in MealLists}

\* The answers tried in the runs of the whole page: a transport error and a
\* well-formed list of MaxMeals records (every answer is tried on a single
\* call under FetchSpec).
PageOutcomes ==
  { [transport |-> FALSE, ok |-> FALSE, body |-> "unparseable", meals |-> <<>>],
    [transport |-> TRUE, ok |-> TRUE, body |-> "list",
     meals |-> [i \in 1..MaxMeals |-> "rec"]] }

\* The request failed in the sense of the error taxonomy: transport error,
\* non-success status, or a payload that is not a list of well-formed records
\* (or the no-results marker).
WellFormedList(l) == \A i \in 1..Len(l) : l[i] = "rec"

Failed(o) ==
  \/ ~o.transport
  \/ ~o.ok
  \/ o.body \in {"unparseable", "null", "notalist"}
  \/ o.body = "list" /\ ~WellFormedList(o.meals)

slice_nocap(meals) == meals

\* data.meals.slice(0, 3)
slice(meals) == SubSeq(meals, 1, Min(MaxCards, Len(meals)))

\* The forEach over the slice, script.js:137-157: one card per record, in
\* order, until a record throws; k is the position of the record in the
\* response. Cards appended before the throw stay in the container.
RECURSIVE AppendCards(_, _, _)
AppendCards(f, shown, k) ==
  IF k > Len(shown) \/ shown[k] = "null" THEN <<>>
  ELSE <<[ing |-> f.ing, gen |-> f.gen, meal |-> k]>> \o AppendCards(f, shown, k + 1)

\* The cards one completed fetchRecipes call appends, script.js:126-161.
CardsOf(f, o) ==
  IF ~o.transport THEN <<>>                         \* fetch rejects -> catch
  ELSE IF ~o.ok THEN <<>>                           \* throw new Error -> catch
  ELSE IF o.body = "unparseable" THEN <<>>          \* json() rejects -> catch
  ELSE IF o.body = "null" THEN <<>>                 \* data.meals throws -> catch
  ELSE IF o.body = "nomeals" THEN <<>>              \* !data.meals -> return
  ELSE IF o.body = "notalist" THEN <<>>             \* slice/forEach throws -> catch
  ELSE AppendCards(f, slice(o.meals), 1)


-----------------------------------------------------------------------------
(* The page *)

\* The state once the DOMContentLoaded handler has run: loadModel() has
\* disabled the control and is suspended in mobilenet.load(), script.js:51-54.
\* The preview image has no source before the first FileReader completes.
LoadModelStart_noDisable ==
  /\ disabled = FALSE
  /\ textContent = LoadingLabel

\* loadModel up to `await mobilenet.load()`, script.js:52-53
LoadModelStart ==
  /\ disabled = TRUE
  /\ textContent = LoadingLabel

UiInit ==
  /\ model = Undefined
  /\ loadPending = TRUE
  /\ files = NoFile
  /\ readers = {}
  /\ previewSrc = NoSrc
  /\ LoadModelStart
  /\ alertMsg = ""
  /\ ingredientList = <<>>
  /\ recipes = <<>>
  /\ passes = {}
  /\ fetches = {}
  /\ gen = 0
  /\ settled = {}

Init ==
  /\ UiInit
  /\ predictions = <<>>
  /\ recognised = <<>>
  /\ resolved = FALSE

\* loadModel after `await mobilenet.load()`, script.js:54-57
LoadModelDone ==
  /\ alertMsg' = ""
  /\ loadPending
  /\ loadPending' = FALSE
  /\ model' = "loaded"
  /\ textContent' = IdleLabel
  /\ disabled' = FALSE
  /\ UNCHANGED <<files, readers, previewSrc, ingredientList, recipes,
                 passes, fetches, gen, settled, predictions, recognised, resolved>>

\* mobilenet.load() rejects: loadModel().catch(err => console.error(err)),
\* script.js:164
LoadModelFail ==
  /\ alertMsg' = ""
  /\ loadPending
  /\ loadPending' = FALSE
  /\ UNCHANGED <<model, files, readers, previewSrc, disabled, textContent,
                 ingredientList, recipes, passes, fetches, gen, settled,
                 predictions, recognised, resolved>>

\* imageUpload 'change' handler, script.js:61-69; f = NoFile is a cancelled
\* dialog that leaves the file list empty.
SelectFile(f) ==
  /\ alertMsg' = ""
  /\ files' = f
  /\ readers' = IF f = NoFile THEN readers ELSE readers \cup {f}
  /\ UNCHANGED <<model, loadPending, previewSrc, disabled, textContent,
                 ingredientList, recipes, passes, fetches, gen, settled,
                 predictions, recognised, resolved>>

\* reader.onload, script.js:65-67; readers complete in any order.
ReaderOnload(f) ==
  /\ alertMsg' = ""
  /\ f \in readers
  /\ readers' = readers \ {f}
  /\ previewSrc' = f
  /\ UNCHANGED <<model, loadPending, files, disabled, textContent,
                 ingredientList, recipes, passes, fetches, gen, settled,
                 predictions, recognised, resolved>>

EnterBusy_stayEnabled ==
  /\ disabled' = disabled
  /\ textContent' = BusyLabel

\* script.js:85-86
EnterBusy ==
  /\ disabled' = TRUE
  /\ textContent' = BusyLabel

\* script.js:83-84
ClearResults ==
  /\ ingredientList' = <<>>
  /\ recipes' = <<>>

\* img.src = previewImage.src, script.js:90
CurrentImage == previewSrc

RejectClick_clearsFirst(notice) ==
  /\ alertMsg' = notice
  /\ ClearResults
  /\ UNCHANGED <<disabled, textContent, passes, gen, settled>>

\* alert(...); return;  script.js:74-75 and 79-80
RejectClick(notice) ==
  /\ alertMsg' = notice
  /\ UNCHANGED <<disabled, textContent, ingredientList, recipes, passes, gen,
                 settled>>

\* analyzeBtn 'click' handler up to `img.onload = ...`, script.js:72-91.
\* A disabled button dispatches no click event.
AnalyzeClick ==
  /\ ~disabled
  /\ IF model = Undefined
     THEN RejectClick(NoModelNotice)
     ELSE IF files = NoFile
     THEN RejectClick(NoFileNotice)
     ELSE /\ gen < MaxAnalyses
          /\ ClearResults
          /\ EnterBusy
          /\ gen' = gen + 1
          /\ passes' = passes \cup {[gen |-> gen + 1, file |-> files,
                                     src |-> CurrentImage, stage |-> "imgload"]}
          /\ settled' = {}
          /\ alertMsg' = ""
  /\ UNCHANGED <<model, loadPending, files, readers, previewSrc, fetches,
                 predictions, recognised, resolved>>

\* The browser fires `load` on an Image whose src names an image; an Image
\* whose src is empty never fires it.
Loads(src) == src \in Files

\* img.onload up to `await model.classify(img)`, script.js:91-93
ImgOnload(p) ==
  /\ alertMsg' = ""
  /\ p \in passes
  /\ p.stage = "imgload"
  /\ Loads(p.src)
  /\ passes' = (passes \ {p}) \cup {[p EXCEPT !.stage = "classify"]}
  /\ UNCHANGED <<model, loadPending, files, readers, previewSrc, disabled, textContent,
                 ingredientList, recipes, fetches, gen, settled,
                 predictions, recognised, resolved>>

\* model.classify(img) rejects: the onload handler's promise is rejected and
\* nothing handles it; the pass never reaches its re-enable.
ClassifyReject(p) ==
  /\ alertMsg' = ""
  /\ p \in passes
  /\ p.stage = "classify"
  /\ passes' = (passes \ {p}) \cup {[p EXCEPT !.stage = "rejected"]}
  /\ UNCHANGED <<model, loadPending, files, readers, previewSrc, disabled, textContent,
                 ingredientList, recipes, fetches, gen, settled,
                 predictions, recognised, resolved>>

\* script.js:109-110 and 120-121
Reenable ==
  /\ textContent' = IdleLabel
  /\ disabled' = FALSE

StartFetches_firstOnly(set, g) ==
  {[gen |-> g, ing |-> set[i], idx |-> i] : i \in 1..Min(1, Len(set))}

\* recognised.forEach(async ingredient => ... await fetchRecipes(ingredient)),
\* script.js:114-119: every callback runs up to its `await fetch(url)` before
\* forEach returns, so one request per element is in flight; idx is the
\* position of the element in the iteration.
StartFetches(set, g) ==
  {[gen |-> g, ing |-> set[i], idx |-> i] : i \in 1..Len(set)}

\* img.onload after `await model.classify(img)`, script.js:93-121
ClassifyDone(p, preds) ==
  /\ alertMsg' = ""
  /\ p \in passes
  /\ p.stage = "classify"
  /\ passes' = passes \ {p}
  /\ predictions' = preds
  /\ recognised' = Resolve(preds)
  /\ IF Len(recognised') = 0
     THEN /\ ingredientList' = <<Placeholder>>
          /\ Reenable
          /\ UNCHANGED fetches
     ELSE /\ ingredientList' = ingredientList \o recognised'
          /\ fetches' = fetches \cup StartFetches(recognised', p.gen)
          /\ Reenable
  /\ UNCHANGED <<model, loadPending, files, readers, previewSrc, recipes,
                 gen, settled, resolved>>

\* What `settled` remembers of a returned call: the call and what the
\* service answered.
Settlement(f, o) == [gen |-> f.gen, ing |-> f.ing, outcome |-> o]

\* one card per step, as if the loop over the meals suspended before each
\* appendChild: the call stays in flight until its last card is in
FetchComplete_cardByCard(f, o) ==
  LET cards == CardsOf(f, o)
      done == Len(SelectSeq(recipes, LAMBDA c : c.gen = f.gen /\ c.ing = f.ing))
      last == done + 1 >= Len(cards)
  IN /\ f \in fetches
     /\ alertMsg' = ""
     /\ fetches' = IF last THEN fetches \ {f} ELSE fetches
     /\ recipes' = IF done < Len(cards) THEN Append(recipes, cards[done + 1]) ELSE recipes
     /\ settled' = IF last THEN settled \cup {Settlement(f, o)} ELSE settled
     /\ UNCHANGED <<model, loadPending, files, readers, previewSrc, disabled, textContent,
                    ingredientList, passes, gen, predictions, recognised, resolved>>

\* fetchRecipes from `await fetch(url)` to its return, script.js:129-160
FetchComplete(f, o) ==
  /\ alertMsg' = ""
  /\ f \in fetches
  /\ fetches' = fetches \ {f}
  /\ recipes' = recipes \o CardsOf(f, o)
  /\ settled' = settled \cup {Settlement(f, o)}
  /\ UNCHANGED <<model, loadPending, files, readers, previewSrc, disabled, textContent,
                 ingredientList, passes, gen, predictions, recognised, resolved>>

Next ==
  \/ LoadModelDone
  \/ LoadModelFail
  \/ \E f \in Files \cup {NoFile} : SelectFile(f)
  \/ \E f \in Files : ReaderOnload(f)
  \/ AnalyzeClick
  \/ \E p \in passes : ImgOnload(p)
  \/ \E p \in passes : ClassifyReject(p)
  \/ \E p \in passes : \E preds \in ClassifierOutputs : ClassifyDone(p, preds)
  \/ \E f \in fetches : \E o \in PageOutcomes : FetchComplete(f, o)

Spec == Init /\ [][Next]_vars

\* The browser delivers the load event of a loadable image, and the classifier
\* is assumed to answer: the two steps a pass waits for.
FairSpec ==
  /\ Init
  /\ [][Next]_vars
  /\ WF_vars(\E p \in passes : ImgOnload(p))
  /\ WF_vars(\E p \in passes : \E preds \in ClassifierOutputs : ClassifyDone(p, preds))

-----------------------------------------------------------------------------
(* The label resolution on its own: any prediction sequence, resolved once *)

ResolveInit ==
  /\ UiInit
  /\ predictions \in PredictionSeqs
  /\ recognised = <<>>
  /\ resolved = FALSE

RunResolve ==
  /\ ~resolved
  /\ recognised' = Resolve(predictions)
  /\ resolved' = TRUE
  /\ UNCHANGED predictions
  /\ UNCHANGED uiVars

ResolveNext == RunResolve

ResolveSpec == ResolveInit /\ [][ResolveNext]_vars


-----------------------------------------------------------------------------
(* One fetchRecipes call on its own: any ingredient, any answer *)

\* The page right after a first pass whose one prediction named a key of the
\* vocabulary: its list item is rendered, its request is in flight and the control
\* is enabled again.
FetchInit ==
  /\ model = "loaded"
  /\ loadPending = FALSE
  /\ files \in Files
  /\ readers = {}
  /\ previewSrc = files
  /\ disabled = FALSE
  /\ textContent = IdleLabel
  /\ alertMsg = ""
  /\ recipes = <<>>
  /\ passes = {}
  /\ gen = 1
  /\ settled = {}
  /\ resolved = FALSE
  /\ \E key \in DOMAIN ingredientMap :
       /\ predictions = <<Pred(key, 90)>>
       /\ recognised = <<ingredientMap[key]>>
       /\ ingredientList = <<ingredientMap[key]>>
       /\ fetches = {[gen |-> 1, ing |-> ingredientMap[key], idx |-> 1]}

FetchNext == \E f \in fetches : \E o \in FetchOutcomes : FetchComplete(f, o)

FetchSpec == FetchInit /\ [][FetchNext]_vars

-----------------------------------------------------------------------------
(* Properties *)

\* The cards in the recipe container that the call (g, ing) appended.
CardsFrom(g, ing) ==
  LET Mine(c) == c.gen = g /\ c.ing = ing IN SelectSeq(recipes, Mine)

\* The cards in the recipe container that show recipes for `ing`.
CardsFor(ing) == {i \in 1..Len(recipes) : recipes[i].ing = ing}

\* The latest accepted analysis has run to its last statement (it was not
\* left behind by a rejected classification).
PassFinished == gen >= 1 /\ passes = {}

\* C1: the recipe container never holds more than 3 cards for one ingredient,
\* whatever fetches of earlier analyses are still in flight.
C1_AtMostCapPerIngredient ==
  \A i \in 1..Len(recipes) : Cardinality(CardsFor(recipes[i].ing)) <= MaxCards

\* C2: every card in the recipe container was appended by a fetch that the
\* most recently accepted analysis started.
C2_OnlyCardsOfLatestAnalysis ==
  \A i \in 1..Len(recipes) : recipes[i].gen = gen

\* C3: once a pass has resolved to the empty set, and until the next analyze
\* click is accepted, the ingredient list is exactly the placeholder item and
\* the recipe container is empty.
C3_EmptySetShowsOnlyPlaceholder ==
  (PassFinished /\ recognised = <<>>) =>
     (ingredientList = <<Placeholder>> /\ recipes = <<>>)

\* C4: while an accepted analysis has not reached its re-enable the control is
\* disabled and shows "Analyzing...", and at most one pass exists at any time
\* (no second analyze click is accepted meanwhile).
C4_NoReentrantAnalysis ==
  /\ Cardinality(passes) <= 1
  /\ passes # {} => (disabled /\ textContent = BusyLabel)

\* a second analysis is under way, with requests of the first still in flight
C4_Witness ==
  /\ gen = 2
  /\ fetches # {}
  /\ \E p \in passes : p.stage = "classify"

\* C5: every element of the recognised set is a canonical name of the
\* vocabulary, for every prediction sequence.
C5_RecognisedWithinVocabulary ==
  resolved => Range(recognised) \subseteq Vocabulary

IsAbove(pred) == pred.probability > Threshold

\* C6: predictions at or below the threshold contribute nothing: the recognised
\* set is the one the predictions strictly above 0.20 yield on their own, and
\* each of its elements comes from a part of such a prediction.
C6_AtOrBelowThresholdContributesNothing ==
  resolved =>
    /\ recognised = Resolve(SelectSeq(predictions, IsAbove))
    /\ \A v \in Range(recognised) :
         \E i \in 1..Len(predictions) :
           /\ predictions[i].probability > Threshold
           /\ \E part \in Range(split(predictions[i].className)) :
                Get(trim(part)) = v

\* a prediction at exactly 0.20 names a vocabulary key whose ingredient stays
\* out of a non-empty recognised set
C6_Witness ==
  /\ resolved
  /\ recognised # <<>>
  /\ \E i \in 1..Len(predictions) :
       /\ predictions[i].probability = Threshold
       /\ \E part \in Range(split(predictions[i].className)) :
            /\ trim(part) \in DOMAIN ingredientMap
            /\ ingredientMap[trim(part)] \notin Range(recognised)

\* C7: a fetchRecipes call whose request failed (transport error, non-success
\* status, malformed payload) leaves no card of its own in the container.
C7_FailedFetchAddsNoCards ==
  \A s \in settled : Failed(s.outcome) => CardsFrom(s.gen, s.ing) = <<>>

\* The cards a well-formed answer with these meals is due: its first three
\* records at most, in the order of the answer.
DueCards(s) ==
  [k \in 1..Min(3, Len(s.outcome.meals)) |-> [ing |-> s.ing, gen |-> s.gen, meal |-> k]]

\* C8: when a pass with a non-empty recognised set has finished, the control is
\* enabled again and every recognised ingredient has had its request issued,
\* and every request of that pass that was answered well has its cards in the
\* container, whatever became of the other requests.
C8_FetchesIndependent ==
  /\ (PassFinished /\ recognised # <<>>) =>
       /\ ~disabled
       /\ textContent = IdleLabel
       /\ \A ing \in Range(recognised) :
            \/ \E f \in fetches : f.gen = gen /\ f.ing = ing
            \/ \E s \in settled : s.gen = gen /\ s.ing = ing
  /\ \A s \in settled :
       (s.gen = gen /\ ~Failed(s.outcome)) => CardsFrom(s.gen, s.ing) = DueCards(s)

\* in a second analysis with two ingredients, one request has failed, the
\* other was answered and shows its cards, and a request of the first analysis
\* still hangs
C8_Witness ==
  /\ gen = 2
  /\ PassFinished
  /\ Len(recognised) = 2
  /\ \E s \in settled : s.gen = gen /\ Failed(s.outcome)
  /\ \E s \in settled : s.gen = gen /\ ~Failed(s.outcome) /\ Len(CardsFrom(s.gen, s.ing)) = MaxCards
  /\ \E f \in fetches : f.gen = 1

\* C9: every accepted analysis is eventually followed by the control being
\* enabled with the label "Analyze Ingredients", provided the classifier
\* answers.
C9_AcceptedAnalysisReturnsToIdle ==
  (\E p \in passes : p.stage = "imgload")
     ~> \/ ~disabled /\ textContent = IdleLabel
        \/ \E p \in passes : p.stage = "rejected"

\* C10: the image given to the classifier is the image of the file that was
\* selected when the analyze click was accepted.
C10_ClassifiedImageIsSelectedFile ==
  \A p \in passes : p.stage = "classify" => p.src = p.file


\* C11: until the model has been loaded the control is disabled with the label
\* "Loading model...", no analysis has been accepted and the classifier has not
\* been invoked; the load completes at most once, and it cannot complete while
\* a pass exists.
C11_NoAnalysisBeforeModelLoaded ==
  /\ model = Undefined =>
       /\ disabled
       /\ textContent = LoadingLabel
       /\ gen = 0
       /\ passes = {}
       /\ fetches = {}
  /\ loadPending => (model = Undefined /\ passes = {})
  /\ passes # {} => (model = "loaded" /\ ~loadPending)

\* the load has completed and an accepted analysis is at the classifier
C11_Witness ==
  /\ model = "loaded"
  /\ \E p \in passes : p.stage = "classify"

\* C12: an analyze click that only shows a notice (model not ready, or no file
\* selected) changes nothing else: list, container, disabled flag and label
\* stay as they are and no pass and no request is started.
C12_RejectedClickChangesNothing ==
  [][alertMsg' # "" =>
       /\ alertMsg' = (IF model = Undefined THEN NoModelNotice ELSE NoFileNotice)
       /\ model = Undefined \/ files = NoFile
       /\ UNCHANGED <<model, loadPending, files, readers, previewSrc, disabled,
                      textContent, ingredientList, recipes, passes, fetches, gen,
                      settled, predictions, recognised, resolved>>]_vars

\* the notice for a missing file is up while the results of an earlier
\* analysis are still shown and one of its requests is still in flight
C12_Witness ==
  /\ alertMsg = NoFileNotice
  /\ ingredientList # <<>>
  /\ recipes # <<>>
  /\ fetches # {}
  /\ ~disabled

\* C13: a call answered with n well-formed meals appends exactly min(n, 3)
\* cards, the first min(n, 3) meals in the order of the answer; the no-results
\* marker appends none.
C13_FirstThreeInServiceOrder ==
  \A s \in settled :
    ~Failed(s.outcome) =>
       /\ recipes = DueCards(s)
       /\ s.outcome.body = "nomeals" => recipes = <<>>

\* an answer with 6 well-formed meals has put exactly 3 cards in the container
C13_Witness ==
  \E s \in settled :
    /\ ~Failed(s.outcome)
    /\ Len(s.outcome.meals) = 6
    /\ Len(recipes) = 3

\* The reference set: the canonical names of the vocabulary keys that are
\* trimmed parts of the labels of the predictions above the threshold.
ReferenceSet(preds) ==
  { ingredientMap[trim(part)] :
      part \in { q \in UNION { Range(split(preds[i].className)) :
                                 i \in { j \in 1..Len(preds) : preds[j].probability > Threshold } } :
                 trim(q) \in DOMAIN ingredientMap } }

\* C14: the recognised set equals the reference set.
C14_RecognisedIsReferenceSet ==
  resolved => Range(recognised) = ReferenceSet(predictions)

\* C15: the set a pass recognises is the one its prediction sequence yields
\* from an empty set, whatever an earlier analysis left behind.
C15_ResolutionIndependentOfEarlierAnalysis ==
  PassFinished => recognised = ResolvePreds(predictions, <<>>)

\* a second analysis has recognised fewer ingredients than the first, whose
\* requests are still in flight
C15_Witness ==
  /\ PassFinished
  /\ gen = 2
  /\ recognised = <<"banana">>
  /\ \E f \in fetches : f.gen = 1 /\ f.ing = "pepper"

\* C16: in the step that ends a pass with a non-empty recognised set, the
\* control is enabled, every recognised ingredient has exactly one list item
\* and exactly one request, and every one of these requests is still in flight.
C16_ItemsAndRequestsBeforeReenable ==
  [][(passes # {} /\ passes' = {} /\ recognised' # <<>>) =>
       /\ ~disabled'
       /\ textContent' = IdleLabel
       /\ \A ing \in Range(recognised') :
            /\ Cardinality({i \in 1..Len(ingredientList') : ingredientList'[i] = ing}) = 1
            /\ Cardinality({f \in fetches' : f.gen = gen /\ f.ing = ing}) = 1
            /\ ~\E s \in settled' : s.gen = gen /\ s.ing = ing
       /\ Len(ingredientList') = Cardinality(Range(recognised'))]_vars

\* a pass whose predictions named "bell pepper" and "jalapeno" has just ended
\* with one pepper item, and nothing of the pass has been answered yet
C16_Witness ==
  /\ PassFinished
  /\ ~disabled
  /\ \E i, j \in 1..Len(predictions) :
       /\ predictions[i].className = <<"bell", " ", "pepper">>
       /\ predictions[j].className = <<"jalapeno">>
  /\ ingredientList = <<"pepper", "banana">>
  /\ Cardinality({f \in fetches : f.gen = gen}) = 2

\* C17: the control is enabled exactly when its label is "Analyze
\* Ingredients", it shows "Loading model..." only while the load is pending and
\* "Analyzing..." only while an accepted analysis has not reached its re-enable.
C17_LabelAgreesWithState ==
  /\ ~disabled <=> textContent = IdleLabel
  /\ textContent = LoadingLabel => loadPending
  /\ textContent = BusyLabel => passes # {}

SameFetch(c1, c2) == c1.gen = c2.gen /\ c1.ing = c2.ing

\* C18: the cards of one fetchRecipes completion are one contiguous block of
\* the recipe container.
C18_CardsOfOneFetchContiguous ==
  \A i, j \in 1..Len(recipes) :
    (i < j /\ SameFetch(recipes[i], recipes[j])) =>
       \A k \in i..j : SameFetch(recipes[k], recipes[i])

\* two completions have each put a full block in the container
C18_Witness ==
  /\ Len(recipes) = 2 * MaxCards
  /\ \E i, j \in 1..Len(recipes) : ~SameFetch(recipes[i], recipes[j])

=============================================================================
